---- MODULE Spec2Model ----
(***************************************************************************)
(* A model of the L5 type checker (src/Liron/src/L5/L5-typecheck.ts).      *)
(* Type expressions, expressions and results are records tagged as in the  *)
(* TypeScript source; the checker's functions are recursive operators and  *)
(* the entry points, the program loop and the operand loop of a top-level  *)
(* application are the actions of a state machine.                         *)
(***************************************************************************)
EXTENDS Integers, Sequences, FiniteSets, TLC

VARIABLES exp, tenv, pc, result, previous, remaining, env, ratorTE, i, substitution

vars == <<exp, tenv, pc, result, previous, remaining, env, ratorTE, i, substitution>>

\* ------------------------------------------------------------------------
\* Bounds of the model
MaxRands == 2
MaxBody == 2
MaxBindings == 2
MaxForms == 3

\* ------------------------------------------------------------------------
\* Type expressions (TExp)
makeNumTExp == [tag |-> "NumTExp"]
makeBoolTExp == [tag |-> "BoolTExp"]
makeStrTExp == [tag |-> "StrTExp"]
makeVoidTExp == [tag |-> "VoidTExp"]
makeLiteralTExp == [tag |-> "LiteralTExp"]
makePairTExp(f, s) == [tag |-> "PairTExp", first |-> f, second |-> s]
makeProcTExp(params, ret) == [tag |-> "ProcTExp", paramTEs |-> params, returnTE |-> ret]
makeTVar(v) == [tag |-> "TVar", var |-> v]

isTVar(te) == te.tag = "TVar"
isPairTExp(te) == te.tag = "PairTExp"
isProcTExp(te) == te.tag = "ProcTExp"
isAtomicTExp(te) == te.tag \in {"NumTExp", "BoolTExp", "StrTExp", "VoidTExp", "LiteralTExp"}

\* ramda's equals: deep structural equality
equals(a, b) == a = b

\* ------------------------------------------------------------------------
\* Results (shared/result): bind passes a failure on as it is
makeOk(v) == [ok |-> TRUE, value |-> v]
makeFailure(m) == [ok |-> FALSE, message |-> m]
isOk(r) == r.ok
bind(r, F(_)) == IF r.ok THEN F(r.value) ELSE r

\* ------------------------------------------------------------------------
\* Type environments: a chain of frames, innermost first
makeEmptyTEnv == << >>
makeExtendTEnv(vs, texps, te) == <<[vars |-> vs, texps |-> texps]>> \o te

indexOf(vs, v) == CHOOSE k \in 1..Len(vs) : vs[k] = v /\ \A j \in 1..(k - 1) : vs[j] # v

RECURSIVE applyTEnv(_, _)
applyTEnv(te, v) ==
    IF te = << >> THEN makeFailure([kind |-> "VarNotFound", name |-> v])
    ELSE IF \E k \in 1..Len(Head(te).vars) : Head(te).vars[k] = v
         THEN makeOk(Head(te).texps[indexOf(Head(te).vars, v)])
         ELSE applyTEnv(Tail(te), v)

\* ------------------------------------------------------------------------
\* Expressions (AST)
\* (record fields are named so that one field name always holds one kind of value)
makeNumExp(n) == [tag |-> "NumExp", num |-> n]
makeBoolExp(b) == [tag |-> "BoolExp", bool |-> b]
makeStrExp(s) == [tag |-> "StrExp", str |-> s]
makePrimOp(op) == [tag |-> "PrimOp", op |-> op]
makeVarRef(v) == [tag |-> "VarRef", var |-> v]
makeVarDecl(v, te) == [tag |-> "VarDecl", var |-> v, texp |-> te]
makeAppExp(rator, rands) == [tag |-> "AppExp", rator |-> rator, rands |-> rands]
makeIfExp(test, then, alt) == [tag |-> "IfExp", test |-> test, then |-> then, alt |-> alt]
makeProcExp(args, body, ret) == [tag |-> "ProcExp", args |-> args, body |-> body, returnTE |-> ret]
makeBinding(v, te, val) == [tag |-> "Binding", decl |-> makeVarDecl(v, te), val |-> val]
makeLetExp(bindings, body) == [tag |-> "LetExp", bindings |-> bindings, body |-> body]
makeLetrecExp(bindings, body) == [tag |-> "LetrecExp", bindings |-> bindings, body |-> body]
makeDefineExp(v, te, val) == [tag |-> "DefineExp", decl |-> makeVarDecl(v, te), val |-> val]
makeProgram(exps) == [tag |-> "Program", exps |-> exps]
makeSetExp(v, val) == [tag |-> "SetExp", target |-> v, val |-> val]

isNumExp(e) == e.tag = "NumExp"
isBoolExp(e) == e.tag = "BoolExp"
isStrExp(e) == e.tag = "StrExp"
isPrimOp(e) == e.tag = "PrimOp"
isVarRef(e) == e.tag = "VarRef"
isIfExp(e) == e.tag = "IfExp"
isProcExp(e) == e.tag = "ProcExp"
isAppExp(e) == e.tag = "AppExp"
isLetExp(e) == e.tag = "LetExp"
isLetrecExp(e) == e.tag = "LetrecExp"
isDefineExp(e) == e.tag = "DefineExp"
isProgram(e) == e.tag = "Program"

makeLitExp(v) == [tag |-> "LitExp", sexp |-> v]
isLitExp(e) == e.tag = "LitExp"

\* Quoted values (SExpValue): an atom of some runtime kind, or a compound pair
makeAtomSExp(k) == [sx |-> k]
makeCompoundSExp(v1, v2) == [sx |-> "compound", val1 |-> v1, val2 |-> v2]
isCompoundSExp(v) == v.sx = "compound"

\* ------------------------------------------------------------------------
\* Failure messages: the template of the message and the values printed in it
msgIncompatible(te1, te2, e) == [kind |-> "IncompatibleTypes", te1 |-> te1, te2 |-> te2, exp |-> e]
msgNonProcedure(te, e) == [kind |-> "ApplicationOfNonProcedure", te1 |-> te, exp |-> e]
msgWrongParamNumbers(e) == [kind |-> "WrongParameterNumbers", exp |-> e]
msgTypeMismatch(e) == [kind |-> "TypeMismatchInApplication", exp |-> e]
msgLetrec(e) == [kind |-> "LetrecOnlyProcedures", exp |-> e]
msgEmptyList == [kind |-> "UnexpectedEmptyList"]
msgPrimitive(op) == [kind |-> "PrimitiveNotImplemented", op |-> op]
msgUnknownType(e) == [kind |-> "UnknownType", exp |-> e]
msgVarDecl(valText) == [kind |-> "VarDeclTypeDifferent", valText |-> valText]

checkEqualType(te1, te2, e) ==
    IF equals(te1, te2) THEN makeOk(TRUE)
    ELSE makeFailure(msgIncompatible(te1, te2, e))

\* ------------------------------------------------------------------------
\* The substitution map of one application: entries in insertion order
newSubstitution == << >>
substHas(subst, v) == \E k \in 1..Len(subst) : subst[k].var = v
substGet(subst, v) == subst[CHOOSE k \in 1..Len(subst) : subst[k].var = v].texp
substSet(subst, v, te) ==
    IF substHas(subst, v)
    THEN [k \in 1..Len(subst) |-> IF subst[k].var = v THEN [var |-> v, texp |-> te] ELSE subst[k]]
    ELSE Append(subst, [var |-> v, texp |-> te])

RECURSIVE unifyTypes(_, _, _)
\* mutant: a type variable is bound anew at each of its occurrences
unifyTypes_overwrite(expected, actual, subst) ==
    IF isTVar(expected) THEN
        [ok |-> TRUE, substitution |-> substSet(subst, expected.var, actual)]
    ELSE IF isAtomicTExp(expected) /\ isAtomicTExp(actual) THEN
        [ok |-> equals(expected, actual), substitution |-> subst]
    ELSE IF isPairTExp(expected) /\ isPairTExp(actual) THEN
        LET u1 == unifyTypes(expected.first, actual.first, subst)
        IN  IF u1.ok THEN unifyTypes(expected.second, actual.second, u1.substitution) ELSE u1
    ELSE [ok |-> equals(expected, actual), substitution |-> subst]

\* mutant: the parameter and return types of two procedure types are unified
\* one by one
unifyTypes_intoArrows(expected, actual, subst) ==
    IF isTVar(expected) THEN
        IF substHas(subst, expected.var)
        THEN [ok |-> equals(substGet(subst, expected.var), actual), substitution |-> subst]
        ELSE [ok |-> TRUE, substitution |-> substSet(subst, expected.var, actual)]
    ELSE IF isAtomicTExp(expected) /\ isAtomicTExp(actual) THEN
        [ok |-> equals(expected, actual), substitution |-> subst]
    ELSE IF isPairTExp(expected) /\ isPairTExp(actual) THEN
        LET u1 == unifyTypes(expected.first, actual.first, subst)
        IN  IF u1.ok THEN unifyTypes(expected.second, actual.second, u1.substitution) ELSE u1
    ELSE IF isProcTExp(expected) /\ isProcTExp(actual)
            /\ Len(expected.paramTEs) = 1 /\ Len(actual.paramTEs) = 1 THEN
        LET u1 == unifyTypes(expected.paramTEs[1], actual.paramTEs[1], subst)
        IN  IF u1.ok THEN unifyTypes(expected.returnTE, actual.returnTE, u1.substitution) ELSE u1
    ELSE [ok |-> equals(expected, actual), substitution |-> subst]

unifyTypes(expected, actual, subst) ==
    IF isTVar(expected) THEN
        IF substHas(subst, expected.var)
        THEN [ok |-> equals(substGet(subst, expected.var), actual), substitution |-> subst]
        ELSE [ok |-> TRUE, substitution |-> substSet(subst, expected.var, actual)]
    ELSE IF isAtomicTExp(expected) /\ isAtomicTExp(actual) THEN
        [ok |-> equals(expected, actual), substitution |-> subst]
    ELSE IF isPairTExp(expected) /\ isPairTExp(actual) THEN
        LET u1 == unifyTypes(expected.first, actual.first, subst)
        IN  IF u1.ok THEN unifyTypes(expected.second, actual.second, u1.substitution) ELSE u1
    ELSE [ok |-> equals(expected, actual), substitution |-> subst]

RECURSIVE substituteTypeVars(_, _)
substituteTypeVars(type, subst) ==
    IF isTVar(type) THEN
        (IF substHas(subst, type.var) THEN substGet(subst, type.var) ELSE type)
    ELSE IF isPairTExp(type) THEN
        makePairTExp(substituteTypeVars(type.first, subst), substituteTypeVars(type.second, subst))
    ELSE IF isProcTExp(type) THEN
        makeProcTExp([k \in 1..Len(type.paramTEs) |-> substituteTypeVars(type.paramTEs[k], subst)],
                     substituteTypeVars(type.returnTE, subst))
    ELSE type

\* ------------------------------------------------------------------------
\* Primitive signatures
numOpTExp == makeProcTExp(<<makeNumTExp, makeNumTExp>>, makeNumTExp)
numCompTExp == makeProcTExp(<<makeNumTExp, makeNumTExp>>, makeBoolTExp)
boolOpTExp == makeProcTExp(<<makeBoolTExp, makeBoolTExp>>, makeBoolTExp)

\* parseTE of the signature texts: an identifier that is no type name is the
\* type variable of that name
typeofPrim(p) ==
    IF p.op \in {"+", "-", "*", "/"} THEN makeOk(numOpTExp)
    ELSE IF p.op \in {"and", "or"} THEN makeOk(boolOpTExp)
    ELSE IF p.op \in {">", "<", "="} THEN makeOk(numCompTExp)
    ELSE IF p.op \in {"number?", "boolean?", "string?", "list?", "pair?", "symbol?"}
        THEN makeOk(makeProcTExp(<<makeTVar("T")>>, makeBoolTExp))
    ELSE IF p.op = "not" THEN makeOk(makeProcTExp(<<makeBoolTExp>>, makeBoolTExp))
    ELSE IF p.op \in {"eq?", "string=?"}
        THEN makeOk(makeProcTExp(<<makeTVar("T1"), makeTVar("T2")>>, makeBoolTExp))
    ELSE IF p.op = "display" THEN makeOk(makeProcTExp(<<makeTVar("T")>>, makeVoidTExp))
    ELSE IF p.op = "newline" THEN makeOk(makeProcTExp(<< >>, makeVoidTExp))
    ELSE IF p.op = "cons"
        THEN makeOk(makeProcTExp(<<makeTVar("T1"), makeTVar("T2")>>,
                                 makePairTExp(makeTVar("T1"), makeTVar("T2"))))
    ELSE IF p.op = "car"
        THEN makeOk(makeProcTExp(<<makePairTExp(makeTVar("T1"), makeTVar("T2"))>>, makeTVar("T1")))
    ELSE IF p.op = "cdr"
        THEN makeOk(makeProcTExp(<<makePairTExp(makeTVar("T1"), makeTVar("T2"))>>, makeTVar("T2")))
    ELSE makeFailure(msgPrimitive(p.op))

\* ------------------------------------------------------------------------
\* Literals
typeofNum(n) == makeNumTExp
typeofBool(b) == makeBoolTExp
typeofStr(s) == makeStrTExp

sideType(v) ==
    IF v.sx = "number" THEN makeNumTExp
    ELSE IF v.sx = "boolean" THEN makeBoolTExp
    ELSE IF v.sx = "string" THEN makeStrTExp
    ELSE makeLiteralTExp

typeofCompoundSExp(val) ==
    IF isCompoundSExp(val) THEN makeOk(makePairTExp(sideType(val.val1), sideType(val.val2)))
    ELSE makeOk(makeLiteralTExp)

typeofLit(e) ==
    IF isCompoundSExp(e.sexp) THEN typeofCompoundSExp(e.sexp) ELSE makeOk(makeLiteralTExp)

\* ------------------------------------------------------------------------
\* zipWithResult (shared/result): apply f pairwise, stop at the first failure
RECURSIVE zipWithResult(_, _, _)
zipWithResult(F(_, _), xs, ys) ==
    IF Len(xs) = 0 \/ Len(ys) = 0 THEN makeOk(<< >>)
    ELSE LET fxy == F(Head(xs), Head(ys))
         IN  IF ~isOk(fxy) THEN fxy
             ELSE LET fxys == zipWithResult(F, Tail(xs), Tail(ys))
                  IN  IF ~isOk(fxys) THEN fxys
                      ELSE makeOk(<<fxy.value>> \o fxys.value)

\* ramda's map and zipWith, and allT of shared/list
map(F(_), xs) == [k \in 1..Len(xs) |-> F(xs[k])]
zipWith(F(_, _), xs, ys) ==
    [k \in 1..(IF Len(xs) < Len(ys) THEN Len(xs) ELSE Len(ys)) |-> F(xs[k], ys[k])]
allT(P(_), xs) == \A k \in 1..Len(xs) : P(xs[k])

\* ------------------------------------------------------------------------
\* The typing engine
RECURSIVE typeofExp(_, _)
RECURSIVE typeofExps(_, _)
RECURSIVE typeofIf(_, _)
RECURSIVE typeofProc(_, _)
RECURSIVE typeofApp(_, _)
RECURSIVE appLoop(_, _, _, _, _)
RECURSIVE typeofLet(_, _)
RECURSIVE typeofLetrec(_, _)
RECURSIVE typeofDefine(_, _)
RECURSIVE typeofProgram(_)
RECURSIVE recur(_, _)

\* mutant: only the last expression of the sequence is checked
typeofExps_lastOnly(exps, te) ==
    IF Len(exps) > 0 THEN typeofExp(exps[Len(exps)], te)
    ELSE makeFailure(msgEmptyList)

typeofExps(exps, te) ==
    IF Len(exps) > 0 THEN
        IF Len(Tail(exps)) = 0 THEN typeofExp(Head(exps), te)
        ELSE bind(typeofExp(Head(exps), te), LAMBDA t : typeofExps(Tail(exps), te))
    ELSE makeFailure(msgEmptyList)

\* mutant: the then/alt constraint is consulted before the test constraint
typeofIf_thenFirst(ifExp, te) ==
    LET testTE == typeofExp(ifExp.test, te)
        thenTE == typeofExp(ifExp.then, te)
        altTE == typeofExp(ifExp.alt, te)
        constraint1 == bind(testTE, LAMBDA t : checkEqualType(t, makeBoolTExp, ifExp))
        constraint2 == bind(thenTE, LAMBDA th :
                            bind(altTE, LAMBDA al : checkEqualType(th, al, ifExp)))
    IN  bind(constraint2, LAMBDA c2 :
            bind(constraint1, LAMBDA c1 : thenTE))

\* mutant: the type of the test is not compared with boolean
typeofIf_anyTest(ifExp, te) ==
    LET testTE == typeofExp(ifExp.test, te)
        thenTE == typeofExp(ifExp.then, te)
        altTE == typeofExp(ifExp.alt, te)
        constraint1 == bind(testTE, LAMBDA t : makeOk(TRUE))
        constraint2 == bind(thenTE, LAMBDA th :
                            bind(altTE, LAMBDA al : checkEqualType(th, al, ifExp)))
    IN  bind(constraint1, LAMBDA c1 :
            bind(constraint2, LAMBDA c2 : thenTE))

typeofIf(ifExp, te) ==
    LET testTE == typeofExp(ifExp.test, te)
        thenTE == typeofExp(ifExp.then, te)
        altTE == typeofExp(ifExp.alt, te)
        constraint1 == bind(testTE, LAMBDA t : checkEqualType(t, makeBoolTExp, ifExp))
        constraint2 == bind(thenTE, LAMBDA th :
                            bind(altTE, LAMBDA al : checkEqualType(th, al, ifExp)))
    IN  bind(constraint1, LAMBDA c1 :
            bind(constraint2, LAMBDA c2 : thenTE))

\* mutant: a failure of the body is replaced by the rule's own message
typeofProc_ownMessage(proc, te) ==
    LET argsTEs == map(LAMBDA vd : vd.texp, proc.args)
        extTEnv == makeExtendTEnv(map(LAMBDA vd : vd.var, proc.args), argsTEs, te)
        constraint1 == bind(typeofExps(proc.body, extTEnv), LAMBDA body :
                            checkEqualType(body, proc.returnTE, proc))
    IN  IF isOk(constraint1) THEN makeOk(makeProcTExp(argsTEs, proc.returnTE))
        ELSE makeFailure(msgIncompatible(proc.returnTE, proc.returnTE, proc))

typeofProc(proc, te) ==
    LET argsTEs == map(LAMBDA vd : vd.texp, proc.args)
        extTEnv == makeExtendTEnv(map(LAMBDA vd : vd.var, proc.args), argsTEs, te)
        constraint1 == bind(typeofExps(proc.body, extTEnv), LAMBDA body :
                            checkEqualType(body, proc.returnTE, proc))
    IN  bind(constraint1, LAMBDA c : makeOk(makeProcTExp(argsTEs, proc.returnTE)))

\* The checks of typeofApp that precede the operand loop: a failure, or
\* the operator's Arrow type
appEnter(app, te) ==
    bind(typeofExp(app.rator, te), LAMBDA rTE :
        IF ~isProcTExp(rTE) THEN makeFailure(msgNonProcedure(rTE, app))
        ELSE IF Len(app.rands) # Len(rTE.paramTEs) THEN makeFailure(msgWrongParamNumbers(app))
        ELSE makeOk(rTE))

\* mutant: the outcome of unifyTypes is ignored
appIter_noMismatch(app, te, rTE, k, subst) ==
    LET randTEResult == typeofExp(app.rands[k], te)
    IN  IF ~isOk(randTEResult) THEN [done |-> TRUE, result |-> randTEResult, substitution |-> subst]
        ELSE [done |-> FALSE, result |-> randTEResult,
              substitution |-> unifyTypes(rTE.paramTEs[k], randTEResult.value, subst).substitution]

\* One iteration of the operand loop of typeofApp, at index k (1-based)
appIter(app, te, rTE, k, subst) ==
    LET randTEResult == typeofExp(app.rands[k], te)
    IN  IF ~isOk(randTEResult) THEN [done |-> TRUE, result |-> randTEResult, substitution |-> subst]
        ELSE LET u == unifyTypes(rTE.paramTEs[k], randTEResult.value, subst)
             IN  IF ~u.ok
                 THEN [done |-> TRUE, result |-> makeFailure(msgTypeMismatch(app)),
                       substitution |-> u.substitution]
                 ELSE [done |-> FALSE, result |-> randTEResult, substitution |-> u.substitution]

\* mutant: the declared result type is returned as it stands
appReturn_noSubst(rTE, subst) == makeOk(rTE.returnTE)

appReturn(rTE, subst) == makeOk(substituteTypeVars(rTE.returnTE, subst))

appLoop(app, te, rTE, k, subst) ==
    IF k > Len(app.rands) THEN appReturn(rTE, subst)
    ELSE LET it == appIter(app, te, rTE, k, subst)
         IN  IF it.done THEN it.result
             ELSE appLoop(app, te, rTE, k + 1, it.substitution)

\* mutant: one substitution map is shared with the applications nested in the
\* operands instead of a new map for each application
RECURSIVE sharedApp(_, _, _)
RECURSIVE sharedLoop(_, _, _, _, _)
sharedLoop(app, te, rTE, k, subst) ==
    IF k > Len(app.rands)
    THEN [result |-> appReturn(rTE, subst), substitution |-> subst]
    ELSE LET r == IF isAppExp(app.rands[k]) THEN sharedApp(app.rands[k], te, subst)
                  ELSE [result |-> typeofExp(app.rands[k], te), substitution |-> subst]
         IN  IF ~isOk(r.result) THEN r
             ELSE LET u == unifyTypes(rTE.paramTEs[k], r.result.value, r.substitution)
                  IN  IF ~u.ok THEN [result |-> makeFailure(msgTypeMismatch(app)),
                                     substitution |-> u.substitution]
                      ELSE sharedLoop(app, te, rTE, k + 1, u.substitution)

sharedApp(app, te, subst) ==
    LET enter == appEnter(app, te)
    IN  IF ~isOk(enter) THEN [result |-> enter, substitution |-> subst]
        ELSE sharedLoop(app, te, enter.value, 1, subst)

typeofApp_sharedMap(app, te) == sharedApp(app, te, newSubstitution).result

typeofApp(app, te) ==
    bind(appEnter(app, te), LAMBDA rTE : appLoop(app, te, rTE, 1, newSubstitution))

\* mutant: the value expressions are checked in the extended environment
typeofLet_extended(e, te) ==
    LET vs == map(LAMBDA b : b.decl.var, e.bindings)
        vals == map(LAMBDA b : b.val, e.bindings)
        varTEs == map(LAMBDA b : b.decl.texp, e.bindings)
        constraints == zipWithResult(LAMBDA varTE, val :
                            bind(typeofExp(val, makeExtendTEnv(vs, varTEs, te)), LAMBDA typeOfVal :
                                checkEqualType(varTE, typeOfVal, e)),
                            varTEs, vals)
    IN  bind(constraints, LAMBDA c : typeofExps(e.body, makeExtendTEnv(vs, varTEs, te)))

typeofLet(e, te) ==
    LET vs == map(LAMBDA b : b.decl.var, e.bindings)
        vals == map(LAMBDA b : b.val, e.bindings)
        varTEs == map(LAMBDA b : b.decl.texp, e.bindings)
        constraints == zipWithResult(LAMBDA varTE, val :
                            bind(typeofExp(val, te), LAMBDA typeOfVal :
                                checkEqualType(varTE, typeOfVal, e)),
                            varTEs, vals)
    IN  bind(constraints, LAMBDA c : typeofExps(e.body, makeExtendTEnv(vs, varTEs, te)))

\* mutant: the procedure bodies do not see the names the letrec binds
typeofLetrec_noRec(e, te) ==
    LET ps == map(LAMBDA b : b.decl.var, e.bindings)
        procs == map(LAMBDA b : b.val, e.bindings)
    IN  IF ~allT(isProcExp, procs) THEN makeFailure(msgLetrec(e))
        ELSE
        LET paramss == map(LAMBDA p : p.args, procs)
            bodies == map(LAMBDA p : p.body, procs)
            tijs == map(LAMBDA params : map(LAMBDA p : p.texp, params), paramss)
            tis == map(LAMBDA proc : proc.returnTE, procs)
            tenvBody == makeExtendTEnv(ps, zipWith(LAMBDA tij, ti : makeProcTExp(tij, ti), tijs, tis), te)
            tenvIs == zipWith(LAMBDA params, tij :
                                makeExtendTEnv(map(LAMBDA p : p.var, params), tij, te),
                              paramss, tijs)
            types == zipWithResult(LAMBDA bodyI, tenvI : typeofExps(bodyI, tenvI), bodies, tenvIs)
            constraints == bind(types, LAMBDA ts :
                                zipWithResult(LAMBDA typeI, ti : checkEqualType(typeI, ti, e), ts, tis))
        IN  bind(constraints, LAMBDA c : typeofExps(e.body, tenvBody))

typeofLetrec(e, te) ==
    LET ps == map(LAMBDA b : b.decl.var, e.bindings)
        procs == map(LAMBDA b : b.val, e.bindings)
    IN  IF ~allT(isProcExp, procs) THEN makeFailure(msgLetrec(e))
        ELSE
        LET paramss == map(LAMBDA p : p.args, procs)
            bodies == map(LAMBDA p : p.body, procs)
            tijs == map(LAMBDA params : map(LAMBDA p : p.texp, params), paramss)
            tis == map(LAMBDA proc : proc.returnTE, procs)
            tenvBody == makeExtendTEnv(ps, zipWith(LAMBDA tij, ti : makeProcTExp(tij, ti), tijs, tis), te)
            tenvIs == zipWith(LAMBDA params, tij :
                                makeExtendTEnv(map(LAMBDA p : p.var, params), tij, tenvBody),
                              paramss, tijs)
            types == zipWithResult(LAMBDA bodyI, tenvI : typeofExps(bodyI, tenvI), bodies, tenvIs)
            constraints == bind(types, LAMBDA ts :
                                zipWithResult(LAMBDA typeI, ti : checkEqualType(typeI, ti, e), ts, tis))
        IN  bind(constraints, LAMBDA c : typeofExps(e.body, tenvBody))

\* mutant: the computed type is not compared with the declared type
typeofDefine_noCompare(e, te) ==
    LET valTE == typeofExp(e.val, te)
    IN  IF isOk(valTE) THEN makeOk(makeVoidTExp)
        ELSE makeFailure(msgVarDecl("unknown"))

\* mutant: the value is checked with the defined name already in scope
typeofDefine_recursive(e, te) ==
    LET valTE == typeofExp(e.val, makeExtendTEnv(<<e.decl.var>>, <<e.decl.texp>>, te))
        constraint == bind(valTE, LAMBDA valType : checkEqualType(valType, e.decl.texp, e))
    IN  IF isOk(constraint) THEN makeOk(makeVoidTExp)
        ELSE makeFailure(msgVarDecl(IF isOk(valTE) THEN "[object Object]" ELSE "unknown"))

typeofDefine(e, te) ==
    LET valTE == typeofExp(e.val, te)
        constraint == bind(valTE, LAMBDA valType : checkEqualType(valType, e.decl.texp, e))
    IN  IF isOk(constraint) THEN makeOk(makeVoidTExp)
        ELSE makeFailure(msgVarDecl(IF isOk(valTE) THEN "[object Object]" ELSE "unknown"))

\* mutant: a define leaves the running environment as it was
recurStep_noExtend(rem, e) ==
    IF Len(rem) = 0 THEN [done |-> TRUE, result |-> makeOk(makeVoidTExp)]
    ELSE IF Len(rem) = 1 THEN [done |-> TRUE, result |-> typeofExp(rem[1], e)]
    ELSE IF isDefineExp(rem[1]) THEN
        LET d == typeofDefine(rem[1], e)
        IN  IF ~isOk(d) THEN [done |-> TRUE, result |-> d]
            ELSE [done |-> FALSE, remaining |-> Tail(rem),
                  env |-> e]
    ELSE
        LET r == typeofExp(rem[1], e)
        IN  IF ~isOk(r) THEN [done |-> TRUE, result |-> r]
            ELSE [done |-> FALSE, remaining |-> Tail(rem), env |-> e]

\* mutant: the final form is treated as every other form
recurStep_noLast(rem, e) ==
    IF Len(rem) = 0 THEN [done |-> TRUE, result |-> makeOk(makeVoidTExp)]
    ELSE IF isDefineExp(rem[1]) THEN
        LET d == typeofDefine(rem[1], e)
        IN  IF ~isOk(d) THEN [done |-> TRUE, result |-> d]
            ELSE [done |-> FALSE, remaining |-> Tail(rem),
                  env |-> makeExtendTEnv(<<rem[1].decl.var>>, <<rem[1].decl.texp>>, e)]
    ELSE
        LET r == typeofExp(rem[1], e)
        IN  IF ~isOk(r) THEN [done |-> TRUE, result |-> r]
            ELSE [done |-> FALSE, remaining |-> Tail(rem), env |-> e]

\* One unfolding of recur in typeofProgram: the result, or the arguments of
\* the recursive call
recurStep(rem, e) ==
    IF Len(rem) = 0 THEN [done |-> TRUE, result |-> makeOk(makeVoidTExp)]
    ELSE IF Len(rem) = 1 THEN [done |-> TRUE, result |-> typeofExp(rem[1], e)]
    ELSE IF isDefineExp(rem[1]) THEN
        LET d == typeofDefine(rem[1], e)
        IN  IF ~isOk(d) THEN [done |-> TRUE, result |-> d]
            ELSE [done |-> FALSE, remaining |-> Tail(rem),
                  env |-> makeExtendTEnv(<<rem[1].decl.var>>, <<rem[1].decl.texp>>, e)]
    ELSE
        LET r == typeofExp(rem[1], e)
        IN  IF ~isOk(r) THEN [done |-> TRUE, result |-> r]
            ELSE [done |-> FALSE, remaining |-> Tail(rem), env |-> e]

recur(rem, e) ==
    LET s == recurStep(rem, e)
    IN  IF s.done THEN s.result ELSE recur(s.remaining, s.env)

typeofProgram(e) == recur(e.exps, makeEmptyTEnv)

typeofExp(e, te) ==
    IF isNumExp(e) THEN makeOk(typeofNum(e))
    ELSE IF isBoolExp(e) THEN makeOk(typeofBool(e))
    ELSE IF isStrExp(e) THEN makeOk(typeofStr(e))
    ELSE IF isPrimOp(e) THEN typeofPrim(e)
    ELSE IF isVarRef(e) THEN applyTEnv(te, e.var)
    ELSE IF isIfExp(e) THEN typeofIf(e, te)
    ELSE IF isProcExp(e) THEN typeofProc(e, te)
    ELSE IF isAppExp(e) THEN typeofApp(e, te)
    ELSE IF isLetExp(e) THEN typeofLet(e, te)
    ELSE IF isLetrecExp(e) THEN typeofLetrec(e, te)
    ELSE IF isDefineExp(e) THEN typeofDefine(e, te)
    ELSE IF isProgram(e) THEN typeofProgram(e)
    ELSE IF isLitExp(e) THEN typeofLit(e)
    ELSE makeFailure(msgUnknownType(e))

\* ------------------------------------------------------------------------
\* Inputs: the expressions and environments the checker is run on
SeqsUpTo(S, n) == UNION {[1..k -> S] : k \in 0..n}

TNum == makeNumTExp
TBool == makeBoolTExp
TNumToNum == makeProcTExp(<<TNum>>, TNum)
TNumToBool == makeProcTExp(<<TNum>>, TBool)
TPairNumBool == makePairTExp(TNum, TBool)
TGenericArg == makeProcTExp(<<makeProcTExp(<<makeTVar("T")>>, makeTVar("T"))>>, TNum)

n1 == makeNumExp(1)
n2 == makeNumExp(2)
n3 == makeNumExp(3)
bt == makeBoolExp(TRUE)
vx == makeVarRef("x")
vy == makeVarRef("y")
vu == makeVarRef("u")
vf == makeVarRef("f")
vp == makeVarRef("p")
vh == makeVarRef("h")
prim(op) == makePrimOp(op)
app1(r, a) == makeAppExp(r, <<a>>)
app2(r, a, b) == makeAppExp(r, <<a, b>>)

\* (T * T -> boolean), ((Pair T T) -> T) and ((number -> number) -> number)
TSame == makeProcTExp(<<makeTVar("T"), makeTVar("T")>>, makeBoolTExp)
TPairSame == makeProcTExp(<<makePairTExp(makeTVar("T"), makeTVar("T"))>>, makeTVar("T"))
TProcArg == makeProcTExp(<<TNumToNum>>, makeNumTExp)
vsame == makeVarRef("same")
vq == makeVarRef("q")
vg == makeVarRef("g")

TEnvBound == makeExtendTEnv(<<"x", "f", "p", "h", "same", "q", "g">>,
                            <<TNum, TNumToNum, TPairNumBool, TGenericArg, TSame, TPairSame, TProcArg>>,
                            makeEmptyTEnv)
TEnvInputs == {makeEmptyTEnv, TEnvBound}

incProc == makeProcExp(<<makeVarDecl("x", TNum)>>, <<app2(prim("+"), vx, n1)>>, TNum)

AppRators == {prim("+"), prim(">"), prim("not"), prim("cons"), prim("car"), prim("cdr"),
              prim("number?"), prim("eq?"), prim("list"), vf, vx, vh, n1, incProc,
              vsame, vq, vg}
AppRandPool == {n1, bt, vx, vp, vu, vf,
                app2(prim("cons"), n1, bt), app2(prim("cons"), bt, n1),
                app2(prim("cons"), n1, n1), app2(prim("+"), n1, bt)}
AppInputs == {makeAppExp(r, rs) : r \in AppRators, rs \in SeqsUpTo(AppRandPool, MaxRands)}

IfPool == {n1, bt, vx, vu, app2(prim(">"), n1, n1), app2(prim("+"), n1, bt)}
IfInputs == {makeIfExp(a, b, c) : a \in IfPool, b \in IfPool, c \in IfPool}

ProcArgs == {<< >>, <<makeVarDecl("x", TNum)>>, <<makeVarDecl("x", TBool)>>,
             <<makeVarDecl("x", TNum), makeVarDecl("y", TBool)>>}
ProcBodyPool == {n1, bt, vx, vy, vu, app2(prim("+"), vx, n1)}
ProcInputs == {makeProcExp(a, b, r) : a \in ProcArgs, b \in SeqsUpTo(ProcBodyPool, MaxBody),
                                      r \in {TNum, TBool}}

LetBindingPool == {makeBinding(v, t, val) : v \in {"x", "y"}, t \in {TNum, TBool},
                                            val \in {n1, bt, vx, vy}}
LetBodies == {<< >>, <<vx>>, <<vy>>, <<vu, vx>>, <<n1, vy>>}
LetInputs == {makeLetExp(bs, b) : bs \in SeqsUpTo(LetBindingPool, MaxBindings), b \in LetBodies}

recProc(callee, ret) == makeProcExp(<<makeVarDecl("n", TNum)>>, <<app1(makeVarRef(callee), makeVarRef("n"))>>, ret)
LetrecVals == {recProc("ev", TBool), recProc("od", TBool), recProc("ev", TNum),
               makeProcExp(<<makeVarDecl("n", TNum)>>, <<vu>>, TBool), n1}
LetrecBindingPool == {makeBinding(v, TNumToBool, val) : v \in {"ev", "od"}, val \in LetrecVals}
LetrecBodies == {<< >>, <<app1(makeVarRef("ev"), n1)>>, <<app1(makeVarRef("od"), bt)>>,
                 <<makeVarRef("od")>>, <<vx>>}
LetrecInputs == {makeLetrecExp(bs, b) : bs \in SeqsUpTo(LetrecBindingPool, MaxBindings),
                                        b \in LetrecBodies}

DefineInputs == {makeDefineExp(v, t, val) : v \in {"x", "y"}, t \in {TNum, TBool},
                                            val \in {n1, bt, vx, vu, app2(prim("+"), n1, bt)}}

selfProc == makeProcExp(<<makeVarDecl("n", TNum)>>, <<app1(vf, makeVarRef("n"))>>, TNum)
FormPool == {makeDefineExp("x", TNum, n1), makeDefineExp("x", TBool, n1),
             makeDefineExp("x", TBool, bt), makeDefineExp("y", TNum, vx),
             makeDefineExp("f", TNumToNum, selfProc), makeDefineExp("f", TNumToNum, incProc),
             makeDefineExp("x", TNum, vx),
             vx, vy, app2(prim("+"), vx, n1), app2(prim("cons"), vx, bt)}
ProgramInputs == {makeProgram(fs) : fs \in SeqsUpTo(FormPool, MaxForms)}

OtherInputs == {n1, bt, makeStrExp("s"), vx, vu, prim("+"), prim("cons"), prim("list"),
                prim("number?"), prim("eq?"), prim("car"), prim("display"), prim("newline"),
                makeIfExp(app2(prim(">"), n1, n2), n1, n2), makeIfExp(n1, n2, n3),
                makeSetExp(vx, n1), makeLitExp(makeAtomSExp("symbol")),
                makeLitExp(makeCompoundSExp(makeAtomSExp("number"), makeAtomSExp("symbol"))),
                makeLitExp(makeCompoundSExp(makeAtomSExp("boolean"),
                                            makeCompoundSExp(makeAtomSExp("number"), makeAtomSExp("empty"))))}

ExpInputs == AppInputs \cup IfInputs \cup ProcInputs \cup LetInputs \cup LetrecInputs
             \cup DefineInputs \cup OtherInputs

\* ------------------------------------------------------------------------
\* The state machine
NotRun == makeFailure([kind |-> "NotRun"])

Init ==
    /\ \/ exp \in ExpInputs /\ tenv \in TEnvInputs
       \/ exp \in ProgramInputs /\ tenv = makeEmptyTEnv
    /\ pc = "start"
    /\ result = NotRun
    /\ previous = NotRun
    /\ remaining = << >>
    /\ env = makeEmptyTEnv
    /\ ratorTE = makeVoidTExp
    /\ i = 0
    /\ substitution = newSubstitution

\* typeofExp on any expression but an application or a program
CheckExp ==
    /\ pc = "start"
    /\ ~isAppExp(exp) /\ ~isProgram(exp)
    /\ result' = typeofExp(exp, tenv)
    /\ pc' = "done"
    /\ UNCHANGED <<exp, tenv, previous, remaining, env, ratorTE, i, substitution>>

\* typeofApp up to the allocation of the substitution map
AppEnter ==
    /\ pc = "start"
    /\ isAppExp(exp)
    /\ LET r == appEnter(exp, tenv)
       IN  IF isOk(r)
           THEN /\ ratorTE' = r.value
                /\ i' = 1
                /\ substitution' = newSubstitution
                /\ pc' = "rands"
                /\ UNCHANGED result
           ELSE /\ result' = r
                /\ pc' = "done"
                /\ UNCHANGED <<ratorTE, i, substitution>>
    /\ UNCHANGED <<exp, tenv, previous, remaining, env>>

\* one iteration of the operand loop
AppRand ==
    /\ pc = "rands"
    /\ i <= Len(exp.rands)
    /\ LET it == appIter(exp, tenv, ratorTE, i, substitution)
       IN  /\ substitution' = it.substitution
           /\ IF it.done
              THEN result' = it.result /\ pc' = "done" /\ UNCHANGED i
              ELSE i' = i + 1 /\ UNCHANGED <<result, pc>>
    /\ UNCHANGED <<exp, tenv, previous, remaining, env, ratorTE>>

\* the return after the loop
AppReturn ==
    /\ pc = "rands"
    /\ i > Len(exp.rands)
    /\ result' = appReturn(ratorTE, substitution)
    /\ pc' = "done"
    /\ UNCHANGED <<exp, tenv, previous, remaining, env, ratorTE, i, substitution>>

\* typeofProgram: the first call of recur
ProgramStart ==
    /\ pc = "start"
    /\ isProgram(exp)
    /\ remaining' = exp.exps
    /\ env' = makeEmptyTEnv
    /\ pc' = "recur"
    /\ UNCHANGED <<exp, tenv, result, previous, ratorTE, i, substitution>>

\* mutant: recur drops the processed form from the program's own array
Recur_shift ==
    /\ pc = "recur"
    /\ LET s == recurStep(remaining, env)
       IN  IF s.done
           THEN result' = s.result /\ pc' = "done" /\ UNCHANGED <<remaining, env, exp>>
           ELSE /\ remaining' = s.remaining /\ env' = s.env
                /\ exp' = [exp EXCEPT !.exps = s.remaining]
                /\ UNCHANGED <<result, pc>>
    /\ UNCHANGED <<tenv, previous, ratorTE, i, substitution>>

\* one unfolding of recur
Recur ==
    /\ pc = "recur"
    /\ LET s == recurStep(remaining, env)
       IN  IF s.done
           THEN result' = s.result /\ pc' = "done" /\ UNCHANGED <<remaining, env>>
           ELSE remaining' = s.remaining /\ env' = s.env /\ UNCHANGED <<result, pc>>
    /\ UNCHANGED <<exp, tenv, previous, ratorTE, i, substitution>>

\* the caller runs the checker once more on the same expression and environment
Rerun ==
    /\ pc = "done"
    /\ previous = NotRun
    /\ previous' = result
    /\ pc' = "start"
    /\ UNCHANGED <<exp, tenv, result, remaining, env, ratorTE, i, substitution>>

Next == CheckExp \/ AppEnter \/ AppRand \/ AppReturn \/ ProgramStart \/ Recur \/ Rerun

Spec == Init /\ [][Next]_vars

\* The stepwise runs end with the result of the recursive definition
StepwiseAgrees == pc = "done" => result = typeofExp(exp, tenv)

\* ------------------------------------------------------------------------
\* Notions the properties are stated with

Min(S) == CHOOSE k \in S : \A j \in S : k <= j

\* The map obtained by unifying, from an empty map and in position order, the
\* types of the first k operands of app with the first k parameter types of
\* rTE; ok is FALSE once an operand fails to type-check or to unify.
RECURSIVE unifyPrefix(_, _, _, _)
unifyPrefix(app, te, rTE, k) ==
    IF k = 0 THEN [ok |-> TRUE, substitution |-> << >>]
    ELSE LET p == unifyPrefix(app, te, rTE, k - 1)
             r == typeofExp(app.rands[k], te)
         IN  IF ~p.ok \/ ~r.ok THEN [ok |-> FALSE, substitution |-> p.substitution]
             ELSE unifyTypes(rTE.paramTEs[k], r.value, p.substitution)

\* A type with every type variable that m binds replaced by its binding
RECURSIVE replaceBound(_, _)
replaceBound(type, m) ==
    CASE type.tag = "TVar" ->
            (IF \E k \in 1..Len(m) : m[k].var = type.var
             THEN m[CHOOSE k \in 1..Len(m) : m[k].var = type.var].texp ELSE type)
      [] type.tag = "PairTExp" ->
            [tag |-> "PairTExp", first |-> replaceBound(type.first, m),
             second |-> replaceBound(type.second, m)]
      [] type.tag = "ProcTExp" ->
            [tag |-> "ProcTExp",
             paramTEs |-> [k \in 1..Len(type.paramTEs) |-> replaceBound(type.paramTEs[k], m)],
             returnTE |-> replaceBound(type.returnTE, m)]
      [] OTHER -> type

AppDone == pc = "done" /\ isAppExp(exp)
ratorResult == typeofExp(exp.rator, tenv)
randResult(k) == typeofExp(exp.rands[k], tenv)
arityOk == isProcTExp(ratorResult.value) /\ Len(exp.rands) = Len(ratorResult.value.paramTEs)

\* ------------------------------------------------------------------------
\* C1: an application whose operator has an Arrow type of the operands' arity,
\* whose operands all type-check and unify in position order under one map,
\* has the Arrow's result type with every bound type variable replaced by its
\* binding; (cons a b) has type Pair(typeOf(a), typeOf(b)), and (car e), (cdr e)
\* with typeOf(e) = Pair(A, B) have types A and B.
C1_AppResult ==
    AppDone /\ ratorResult.ok =>
        /\ (arityOk /\ unifyPrefix(exp, tenv, ratorResult.value, Len(exp.rands)).ok)
           => (result = makeOk(replaceBound(ratorResult.value.returnTE,
                          unifyPrefix(exp, tenv, ratorResult.value, Len(exp.rands)).substitution)))
        /\ (exp.rator = prim("cons") /\ Len(exp.rands) = 2
                /\ randResult(1).ok /\ randResult(2).ok)
           => (result = makeOk(makePairTExp(randResult(1).value, randResult(2).value)))
        /\ (exp.rator \in {prim("car"), prim("cdr")} /\ Len(exp.rands) = 1
                /\ randResult(1).ok /\ isPairTExp(randResult(1).value))
           => (result = makeOk(IF exp.rator = prim("car") THEN randResult(1).value.first
                               ELSE randResult(1).value.second))

C1_Witness ==
    /\ pc = "done" /\ tenv = TEnvBound
    /\ exp = app2(prim("cons"), app2(prim("cons"), n1, bt), vx)
    /\ substitution = <<[var |-> "T1", texp |-> TPairNumBool], [var |-> "T2", texp |-> TNum]>>
    /\ result = makeOk(makePairTExp(TPairNumBool, TNum))

\* ------------------------------------------------------------------------
\* C2 (as amended): an application whose operator type-checks fails with
\* application-of-non-procedure when the operator's type is no Arrow, else with
\* arity-mismatch when the operand count differs from the parameter count; else
\* the operands are taken left to right and the first one that fails to
\* type-check or whose type does not unify decides: the application fails with
\* that operand's own failure, or with type-mismatch-in-application.
C2_AppFailureOrder ==
    AppDone /\ ratorResult.ok =>
        /\ IF ~isProcTExp(ratorResult.value)
           THEN result = makeFailure(msgNonProcedure(ratorResult.value, exp))
           ELSE IF Len(exp.rands) # Len(ratorResult.value.paramTEs)
           THEN result = makeFailure(msgWrongParamNumbers(exp))
           ELSE LET bad == {k \in 1..Len(exp.rands) : ~unifyPrefix(exp, tenv, ratorResult.value, k).ok}
                IN  IF bad = {} THEN result.ok
                    ELSE IF ~randResult(Min(bad)).ok THEN result = randResult(Min(bad))
                    ELSE result = makeFailure(msgTypeMismatch(exp))
        /\ exp = app1(incProc, bt) => result = makeFailure(msgTypeMismatch(exp))
        /\ exp = app1(incProc, n1) => result = makeOk(TNum)
        /\ exp \in {makeAppExp(incProc, << >>), app2(incProc, n1, n1)}
               => result = makeFailure(msgWrongParamNumbers(exp))

C2_Witness ==
    /\ pc = "done" /\ exp = app2(prim("+"), n1, bt)
    /\ i = 2
    /\ result = makeFailure(msgTypeMismatch(exp))

\* C2 as stated: whenever the arity agrees and some operand has a type that
\* does not unify with its parameter type, the failure is type-mismatch.
C2_AsStated ==
    (AppDone /\ ratorResult.ok /\ arityOk
     /\ \E k \in 1..Len(exp.rands) :
              /\ randResult(k).ok
              /\ ~unifyTypes(ratorResult.value.paramTEs[k], randResult(k).value, << >>).ok)
    => result = makeFailure(msgTypeMismatch(exp))

\* ------------------------------------------------------------------------
\* C3 (as amended): when one of test, then, alt fails, typeofIf returns the
\* failure of test if test fails; if test has a type other than Boolean it
\* returns the test-is-not-Boolean mismatch, whatever then and alt do; else the
\* failure of then, else that of alt.
IfDone == pc = "done" /\ isIfExp(exp)
testResult == typeofExp(exp.test, tenv)
thenResult == typeofExp(exp.then, tenv)
altResult == typeofExp(exp.alt, tenv)
someBranchFails == ~testResult.ok \/ ~thenResult.ok \/ ~altResult.ok

C3_IfFailureOrder ==
    IfDone /\ someBranchFails =>
        IF ~testResult.ok THEN result = testResult
        ELSE IF testResult.value # makeBoolTExp
             THEN result = makeFailure(msgIncompatible(testResult.value, makeBoolTExp, exp))
        ELSE IF ~thenResult.ok THEN result = thenResult
        ELSE result = altResult

C3_Witness ==
    /\ pc = "done" /\ tenv = TEnvBound
    /\ exp = makeIfExp(vx, vu, n1)
    /\ result = makeFailure(msgIncompatible(TNum, TBool, exp))

\* C3 as stated: the failure of the first failing one of test, then, alt is
\* returned, in preference to the mismatch failures.
C3_AsStated ==
    IfDone /\ someBranchFails =>
        IF ~testResult.ok THEN result = testResult
        ELSE IF ~thenResult.ok THEN result = thenResult
        ELSE result = altResult

\* ------------------------------------------------------------------------
\* The environments of the binding forms, frame by frame
declVars(decls) == [k \in 1..Len(decls) |-> decls[k].var]
declTEs(decls) == [k \in 1..Len(decls) |-> decls[k].texp]
procEnv(proc, te) == <<[vars |-> declVars(proc.args), texps |-> declTEs(proc.args)]>> \o te
letEnv(e, te) ==
    <<[vars |-> [k \in 1..Len(e.bindings) |-> e.bindings[k].decl.var],
       texps |-> [k \in 1..Len(e.bindings) |-> e.bindings[k].decl.texp]]>> \o te
arrowOf(proc) == [tag |-> "ProcTExp", paramTEs |-> declTEs(proc.args), returnTE |-> proc.returnTE]
letrecEnv(e, te) ==
    <<[vars |-> [k \in 1..Len(e.bindings) |-> e.bindings[k].decl.var],
       texps |-> [k \in 1..Len(e.bindings) |-> arrowOf(e.bindings[k].val)]]>> \o te

\* The environment made by the defines among the forms fs, in order
RECURSIVE definesEnv(_)
definesEnv(fs) ==
    IF Len(fs) = 0 THEN << >>
    ELSE LET last == fs[Len(fs)]
             before == definesEnv(SubSeq(fs, 1, Len(fs) - 1))
         IN  IF last.tag = "DefineExp"
             THEN <<[vars |-> <<last.decl.var>>, texps |-> <<last.decl.texp>>]>> \o before
             ELSE before

\* The check of the k-th top-level form of program e
formResult(e, k) == typeofExp(e.exps[k], definesEnv(SubSeq(e.exps, 1, k - 1)))

\* The failure of the first failing check among the elements of a sequence
\* (NotRun when none fails)
seqSubFailure(exps, te) ==
    LET failing == {k \in 1..Len(exps) : ~typeofExp(exps[k], te).ok}
    IN  IF failing = {} THEN NotRun ELSE typeofExp(exps[Min(failing)], te)

\* The failure of the first failing sub-expression check that the rule of e
\* performs (NotRun when it performs none that fails)
subFailure(e, te) ==
    CASE e.tag = "IfExp" -> seqSubFailure(<<e.test, e.then, e.alt>>, te)
      [] e.tag = "ProcExp" -> seqSubFailure(e.body, procEnv(e, te))
      [] e.tag = "AppExp" ->
            LET r == typeofExp(e.rator, te)
            IN  IF ~r.ok THEN r
                ELSE IF ~isProcTExp(r.value) \/ Len(e.rands) # Len(r.value.paramTEs) THEN NotRun
                ELSE LET bad == {k \in 1..Len(e.rands) : ~unifyPrefix(e, te, r.value, k).ok}
                     IN  IF bad # {} /\ ~typeofExp(e.rands[Min(bad)], te).ok
                         THEN typeofExp(e.rands[Min(bad)], te) ELSE NotRun
      [] e.tag = "LetExp" ->
            LET valR(k) == typeofExp(e.bindings[k].val, te)
                bad == {k \in 1..Len(e.bindings) :
                            ~valR(k).ok \/ valR(k).value # e.bindings[k].decl.texp}
            IN  IF bad = {} THEN seqSubFailure(e.body, letEnv(e, te))
                ELSE IF ~valR(Min(bad)).ok THEN valR(Min(bad)) ELSE NotRun
      [] e.tag = "LetrecExp" ->
            IF \E k \in 1..Len(e.bindings) : e.bindings[k].val.tag # "ProcExp" THEN NotRun
            ELSE LET bodyEnv(k) == procEnv(e.bindings[k].val, letrecEnv(e, te))
                     bodyR(k) == typeofExps(e.bindings[k].val.body, bodyEnv(k))
                     failing == {k \in 1..Len(e.bindings) : ~bodyR(k).ok}
                 IN  IF failing # {}
                     THEN seqSubFailure(e.bindings[Min(failing)].val.body, bodyEnv(Min(failing)))
                     ELSE IF \E k \in 1..Len(e.bindings) :
                                  bodyR(k).value # e.bindings[k].val.returnTE
                     THEN NotRun
                     ELSE seqSubFailure(e.body, letrecEnv(e, te))
      [] e.tag = "DefineExp" -> seqSubFailure(<<e.val>>, te)
      [] e.tag = "Program" ->
            LET failing == {k \in 1..Len(e.exps) : ~formResult(e, k).ok}
            IN  IF failing = {} THEN NotRun ELSE formResult(e, Min(failing))
      [] OTHER -> NotRun

\* ------------------------------------------------------------------------
\* C4 (as amended): in a sequence, procedure, application, let, letrec and
\* program, a failing sub-expression check makes the form fail with the very
\* same failure. A conditional does so too unless its test has a type other
\* than Boolean, when it reports that mismatch instead. A define replaces the
\* failure of its value expression by its own message.
C4_FailurePropagation ==
    pc = "done" /\ subFailure(exp, tenv) # NotRun =>
        IF isDefineExp(exp) THEN result = makeFailure(msgVarDecl("unknown"))
        ELSE IF isIfExp(exp) /\ testResult.ok /\ testResult.value # makeBoolTExp
             THEN result = makeFailure(msgIncompatible(testResult.value, makeBoolTExp, exp))
        ELSE result = subFailure(exp, tenv)

C4_Witness ==
    /\ pc = "done" /\ tenv = TEnvBound
    /\ exp = makeProcExp(<<makeVarDecl("x", TNum)>>, <<vx, vu>>, TNum)
    /\ result = makeFailure([kind |-> "VarNotFound", name |-> "u"])

\* C4 as stated: every composite form fails with the failure of its failing
\* sub-expression.
C4_AsStated ==
    pc = "done" /\ subFailure(exp, tenv) # NotRun => result = subFailure(exp, tenv)

\* ------------------------------------------------------------------------
\* C5: the type-variable names of the signature a lookup of a generic
\* primitive returns differ from those any other lookup returns, a further
\* lookup of the same operator included.
GenericOps == {"number?", "boolean?", "string?", "list?", "pair?", "symbol?",
               "eq?", "string=?", "display", "cons", "car", "cdr"}

RECURSIVE tvarNames(_)
tvarNames(te) ==
    CASE te.tag = "TVar" -> {te.var}
      [] te.tag = "PairTExp" -> tvarNames(te.first) \cup tvarNames(te.second)
      [] te.tag = "ProcTExp" ->
            UNION {tvarNames(te.paramTEs[k]) : k \in 1..Len(te.paramTEs)} \cup tvarNames(te.returnTE)
      [] OTHER -> {}

C5_FreshNames ==
    (pc = "done" /\ isPrimOp(exp) /\ exp.op \in GenericOps) =>
        \A q \in GenericOps :
            tvarNames(result.value) \cap tvarNames(typeofPrim(prim(q)).value) = {}

\* ------------------------------------------------------------------------
\* C6: the substitution map of an application holds the bindings made by its
\* own operands only, so the type of an application is a function of its
\* operator's type and its operands' types.
appByTypes(app, te) ==
    LET r == typeofExp(app.rator, te)
        n == Len(app.rands)
    IN  IF ~r.ok THEN r
        ELSE IF ~isProcTExp(r.value) THEN makeFailure(msgNonProcedure(r.value, app))
        ELSE IF n # Len(r.value.paramTEs) THEN makeFailure(msgWrongParamNumbers(app))
        ELSE LET bad == {k \in 1..n : ~unifyPrefix(app, te, r.value, k).ok}
             IN  IF bad = {}
                 THEN makeOk(replaceBound(r.value.returnTE, unifyPrefix(app, te, r.value, n).substitution))
                 ELSE IF ~typeofExp(app.rands[Min(bad)], te).ok THEN typeofExp(app.rands[Min(bad)], te)
                 ELSE makeFailure(msgTypeMismatch(app))

C6_SubstitutionIsLocal ==
    /\ pc = "rands"
           => substitution = unifyPrefix(exp, tenv, ratorTE, i - 1).substitution
    /\ AppDone => (result = appByTypes(exp, tenv) /\ typeofExp(exp, tenv) = appByTypes(exp, tenv))

C6_Witness ==
    /\ pc = "done"
    /\ exp = app2(prim("cons"), app2(prim("cons"), n1, bt), app2(prim("cons"), bt, n1))
    /\ result = makeOk(makePairTExp(makePairTExp(TNum, TBool), makePairTExp(TBool, TNum)))

\* ------------------------------------------------------------------------
\* C7: each top-level form of a program is checked in an environment that
\* holds exactly the names of the defines before it, each at its declared
\* type; the forms before it have type-checked; a reference to a name only a
\* later define binds fails as unbound.
Names == {"x", "y", "f", "u", "p", "h", "same", "q", "g"}
ProgramRun == isProgram(exp) /\ pc \in {"recur", "done"}
processed == SubSeq(exp.exps, 1, Len(exp.exps) - Len(remaining))

\* what the defines among fs say about name v
lookupDefines(fs, v) ==
    LET ds == {k \in 1..Len(fs) : fs[k].tag = "DefineExp" /\ fs[k].decl.var = v}
    IN  IF ds = {} THEN makeFailure([kind |-> "VarNotFound", name |-> v])
        ELSE makeOk(fs[CHOOSE k \in ds : \A j \in ds : j <= k].decl.texp)

C7_ProgramEnv ==
    ProgramRun =>
        /\ remaining = SubSeq(exp.exps, Len(exp.exps) - Len(remaining) + 1, Len(exp.exps))
        /\ \A v \in Names : applyTEnv(env, v) = lookupDefines(processed, v)
        /\ \A k \in 1..Len(processed) : formResult(exp, k).ok
        /\ (pc = "done" /\ remaining # << >>) => (result = typeofExp(Head(remaining), env))
        /\ (pc = "done" /\ remaining # << >> /\ isVarRef(Head(remaining))
                /\ ~lookupDefines(processed, Head(remaining).var).ok)
           => (result = makeFailure([kind |-> "VarNotFound", name |-> Head(remaining).var]))

C7_Witness ==
    /\ pc = "done"
    /\ exp = makeProgram(<<makeDefineExp("x", TNum, n1), vy, makeDefineExp("y", TNum, vx)>>)
    /\ Len(remaining) = 2
    /\ applyTEnv(env, "x") = makeOk(TNum)
    /\ result = makeFailure([kind |-> "VarNotFound", name |-> "y"])

\* ------------------------------------------------------------------------
\* C8: when every top-level form type-checks, the type of the program is the
\* type of its final form (Void for a final define) and Void for a program
\* without forms; when a form fails, the program fails with the failure of the
\* first failing form and no later form is processed.
C8_ProgramType ==
    (pc = "done" /\ isProgram(exp)) =>
        LET n == Len(exp.exps)
            failing == {k \in 1..n : ~formResult(exp, k).ok}
        IN  IF failing = {}
            THEN /\ n = 0 => result = makeOk(makeVoidTExp)
                 /\ n > 0 => result = formResult(exp, n)
                 /\ (n > 0 /\ isDefineExp(exp.exps[n])) => result = makeOk(makeVoidTExp)
            ELSE /\ result = formResult(exp, Min(failing))
                 /\ Len(remaining) = n - Min(failing) + 1

C8_Witness ==
    /\ pc = "done"
    /\ exp = makeProgram(<<makeDefineExp("x", TNum, n1), vx, app2(prim("+"), vx, n1)>>)
    /\ remaining = <<app2(prim("+"), vx, n1)>>
    /\ result = makeOk(TNum)

\* ------------------------------------------------------------------------
\* C9: the value expressions of a let are checked in the environment of the
\* let itself: a value that names a sibling binding fails as unbound when the
\* enclosing environment does not bind the name, and has the enclosing type
\* when it does. The body sequence is checked, in the environment extended by
\* one frame with all the bound names, only when every value has its declared
\* type.
LetDone == pc = "done" /\ isLetExp(exp)
letValResult(k) == typeofExp(exp.bindings[k].val, tenv)
letBad == {k \in 1..Len(exp.bindings) :
               ~letValResult(k).ok \/ letValResult(k).value # exp.bindings[k].decl.texp}

C9_LetScope ==
    LetDone =>
        /\ IF letBad = {} THEN result = typeofExps(exp.body, letEnv(exp, tenv))
           ELSE IF ~letValResult(Min(letBad)).ok THEN result = letValResult(Min(letBad))
           ELSE result = makeFailure(msgIncompatible(exp.bindings[Min(letBad)].decl.texp,
                                                     letValResult(Min(letBad)).value, exp))
        /\ \A k \in 1..Len(exp.bindings) :
              ( /\ isVarRef(exp.bindings[k].val)
                /\ \E j \in 1..Len(exp.bindings) : exp.bindings[j].decl.var = exp.bindings[k].val.var
                /\ ~applyTEnv(tenv, exp.bindings[k].val.var).ok
                /\ \A j \in 1..(k - 1) : j \notin letBad )
              => (result = makeFailure([kind |-> "VarNotFound", name |-> exp.bindings[k].val.var]))

C9_Witness ==
    /\ pc = "done" /\ tenv = makeEmptyTEnv
    /\ exp = makeLetExp(<<makeBinding("x", TNum, n1), makeBinding("y", TNum, vx)>>, <<vy>>)
    /\ result = makeFailure([kind |-> "VarNotFound", name |-> "x"])

\* ------------------------------------------------------------------------
\* C10: a letrec fails when a bound value is no procedure literal. Otherwise
\* it type-checks exactly when the body sequence of every bound procedure,
\* checked in the environment extended with the bound names at their declared
\* Arrow types and then with the procedure's parameters, has the declared
\* return type, and the letrec body type-checks in the environment of the
\* bound names; its type is the type of the body.
LetrecDone == pc = "done" /\ isLetrecExp(exp)
letrecBodyResult(k) ==
    typeofExps(exp.bindings[k].val.body, procEnv(exp.bindings[k].val, letrecEnv(exp, tenv)))

C10_Letrec ==
    LetrecDone =>
        IF \E k \in 1..Len(exp.bindings) : ~isProcExp(exp.bindings[k].val)
        THEN result = makeFailure(msgLetrec(exp))
        ELSE /\ result.ok <=>
                    /\ \A k \in 1..Len(exp.bindings) :
                          /\ letrecBodyResult(k).ok
                          /\ letrecBodyResult(k).value = exp.bindings[k].val.returnTE
                    /\ typeofExps(exp.body, letrecEnv(exp, tenv)).ok
             /\ result.ok => result = typeofExps(exp.body, letrecEnv(exp, tenv))

C10_Witness ==
    /\ pc = "done" /\ tenv = makeEmptyTEnv
    /\ exp = makeLetrecExp(<<makeBinding("ev", TNumToBool, recProc("od", TBool)),
                             makeBinding("od", TNumToBool, recProc("ev", TBool))>>,
                           <<app1(makeVarRef("ev"), n1)>>)
    /\ result = makeOk(TBool)

\* ------------------------------------------------------------------------
\* C11: a conditional type-checks exactly when test, then and alt type-check,
\* the type of test is Boolean and the types of then and alt are equal; its
\* type is that common type. (if (> 1 2) 1 2) has type Number; (if 1 2 3) fails.
C11_IfType ==
    IfDone =>
        /\ result.ok <=>
              /\ testResult.ok /\ thenResult.ok /\ altResult.ok
              /\ testResult.value = makeBoolTExp
              /\ thenResult.value = altResult.value
        /\ result.ok => (result = thenResult /\ result = altResult)
        /\ exp = makeIfExp(app2(prim(">"), n1, n2), n1, n2) => result = makeOk(makeNumTExp)
        /\ exp = makeIfExp(n1, n2, n3) => ~result.ok

C11_Witness ==
    /\ pc = "done"
    /\ exp = makeIfExp(app2(prim(">"), n1, n2), n1, n2)
    /\ result = makeOk(makeNumTExp)

\* ------------------------------------------------------------------------
\* C12: a procedure expression has type Arrow(declared parameter types,
\* declared return type) exactly when its body sequence is not empty, every
\* body expression type-checks in the environment extended with the frame of
\* the parameters, and the type of the last one equals the declared return
\* type; otherwise it fails.
ProcDone == pc = "done" /\ isProcExp(exp)
procBodyResult(k) == typeofExp(exp.body[k], procEnv(exp, tenv))

C12_ProcType ==
    ProcDone =>
        /\ result.ok <=>
              /\ Len(exp.body) > 0
              /\ \A k \in 1..Len(exp.body) : procBodyResult(k).ok
              /\ procBodyResult(Len(exp.body)).value = exp.returnTE
        /\ result.ok => result = makeOk(arrowOf(exp))

C12_Witness ==
    /\ pc = "done" /\ tenv = makeEmptyTEnv
    /\ exp = makeProcExp(<<makeVarDecl("x", TNum), makeVarDecl("y", TBool)>>, <<vy, vx>>, TNum)
    /\ result = makeOk(makeProcTExp(<<TNum, TBool>>, TNum))

\* ------------------------------------------------------------------------
\* C13: a define has type Void exactly when its value expression type-checks
\* with a type equal to the declared type of the variable; it fails when the
\* types differ, and it yields no type other than Void.
DefineDone == pc = "done" /\ isDefineExp(exp)
defineValResult == typeofExp(exp.val, tenv)

C13_DefineType ==
    DefineDone =>
        /\ result.ok <=> (defineValResult.ok /\ defineValResult.value = exp.decl.texp)
        /\ result.ok => result = makeOk(makeVoidTExp)
        /\ (defineValResult.ok /\ defineValResult.value # exp.decl.texp) => ~result.ok

C13_Witness ==
    /\ pc = "done" /\ tenv = TEnvBound
    /\ exp = makeDefineExp("y", TBool, vx)
    /\ result = makeFailure(msgVarDecl("[object Object]"))

RECURSIVE occurrences(_, _)
occurrences(expected, actual) ==
    CASE expected.tag = "TVar" -> <<[var |-> expected.var, texp |-> actual]>>
      [] expected.tag = "PairTExp" /\ actual.tag = "PairTExp" ->
            occurrences(expected.first, actual.first) \o occurrences(expected.second, actual.second)
      [] OTHER -> << >>

\* the occurrences met in the first k operands of the application under check
RECURSIVE randOccurrences(_, _)
randOccurrences(rTE, k) ==
    IF k = 0 THEN << >>
    ELSE randOccurrences(rTE, k - 1) \o occurrences(rTE.paramTEs[k], randResult(k).value)

firstOccurrence(occs, v) == occs[Min({j \in 1..Len(occs) : occs[j].var = v})].texp

C15_BoundAtFirst ==
    /\ pc = "rands" =>
        LET occs == randOccurrences(ratorTE, i - 1)
        IN  /\ {substitution[k].var : k \in 1..Len(substitution)} = {occs[j].var : j \in 1..Len(occs)}
            /\ \A k, l \in 1..Len(substitution) : substitution[k].var = substitution[l].var => k = l
            /\ \A k \in 1..Len(substitution) :
                    substitution[k].texp = firstOccurrence(occs, substitution[k].var)
            /\ \A j \in 1..Len(occs) : occs[j].texp = firstOccurrence(occs, occs[j].var)
    /\ (AppDone /\ ratorResult.ok /\ arityOk /\ \A k \in 1..Len(exp.rands) : randResult(k).ok) =>
        LET occs == randOccurrences(ratorResult.value, Len(exp.rands))
        IN  (\E j \in 1..Len(occs) : occs[j].texp # firstOccurrence(occs, occs[j].var))
                => result = makeFailure(msgTypeMismatch(exp))

C15_FirstOccurrence ==
    /\ []C15_BoundAtFirst
    /\ [][pc = "rands" => /\ Len(substitution') >= Len(substitution)
                          /\ \A k \in 1..Len(substitution) : substitution'[k] = substitution[k]]_vars

C15_Witness ==
    /\ pc = "done" /\ tenv = TEnvBound
    /\ exp = app2(vsame, n1, bt)
    /\ substitution = <<[var |-> "T", texp |-> TNum]>>
    /\ result = makeFailure(msgTypeMismatch(exp))

\* ------------------------------------------------------------------------
\* C16: unification binds no type variable that sits inside a procedure type.
\* When the parameter type is neither a type variable, nor atomic against an
\* atomic operand type, nor a Pair against a Pair, the operand is accepted
\* exactly when its type equals the parameter type, and the substitution map
\* stays as it was. An operator whose parameter is (T -> T) rejects an
\* operand of type (number -> number).
otherShape(expected, actual) ==
    /\ expected.tag # "TVar"
    /\ ~(isAtomicTExp(expected) /\ isAtomicTExp(actual))
    /\ ~(expected.tag = "PairTExp" /\ actual.tag = "PairTExp")

C16_ArrowExamples ==
    /\ (pc \in {"rands", "done"} /\ isAppExp(exp) /\ exp.rator = vh /\ tenv = TEnvBound)
            => substitution = << >>
    /\ (AppDone /\ tenv = TEnvBound /\ exp = app1(vh, vf))
            => result = makeFailure(msgTypeMismatch(exp))
    /\ (AppDone /\ tenv = TEnvBound /\ exp = app1(vg, vf)) => result = makeOk(makeNumTExp)

C16_NoBindingInArrow ==
    /\ []C16_ArrowExamples
    /\ [][(/\ pc = "rands" /\ i <= Len(exp.rands) /\ randResult(i).ok
           /\ otherShape(ratorTE.paramTEs[i], randResult(i).value))
          => /\ substitution' = substitution
             /\ pc' = "done" <=> ratorTE.paramTEs[i] # randResult(i).value
             /\ pc' = "done" => result' = makeFailure(msgTypeMismatch(exp))]_vars

C16_Witness ==
    /\ pc = "done" /\ tenv = TEnvBound
    /\ exp = app1(vh, vf)
    /\ ratorTE = TGenericArg
    /\ substitution = << >>
    /\ result = makeFailure(msgTypeMismatch(exp))

\* ------------------------------------------------------------------------
\* C17: the value of a top-level define is checked in the environment of the
\* defines before it, so the name being defined is not in scope in its own
\* value: a define whose value refers to its own name fails unless an earlier
\* define bound the name, and then the reference has the type the earlier
\* define declared.
selfReference(d) == isVarRef(d.val) /\ d.val.var = d.decl.var
selfCall(d) == d.decl.var = "f" /\ d.decl.texp = TNumToNum /\ d.val = selfProc

\* a define whose value names the defined variable is accepted exactly when
\* the name has the declared type already
selfDefineOk(d, earlier, r) ==
    /\ (selfReference(d) \/ selfCall(d)) =>
        /\ ~earlier.ok => r = makeFailure(msgVarDecl("unknown"))
        /\ r.ok <=> earlier = makeOk(d.decl.texp)
    /\ (selfReference(d) /\ earlier.ok /\ earlier.value # d.decl.texp)
            => r = makeFailure(msgVarDecl("[object Object]"))

C17_DefineScope ==
    /\ (ProgramRun /\ pc = "done" /\ remaining # << >> /\ isDefineExp(Head(remaining)))
            => selfDefineOk(Head(remaining),
                            lookupDefines(processed, Head(remaining).decl.var), result)
    /\ ProgramRun =>
            \A k \in 1..Len(processed) :
                (isDefineExp(processed[k]) /\ (selfReference(processed[k]) \/ selfCall(processed[k])))
                    => lookupDefines(SubSeq(processed, 1, k - 1), processed[k].decl.var)
                            = makeOk(processed[k].decl.texp)
    /\ DefineDone => selfDefineOk(exp, applyTEnv(tenv, exp.decl.var), result)

C17_Witness ==
    /\ pc = "done"
    /\ exp = makeProgram(<<makeDefineExp("x", TNum, n1), makeDefineExp("f", TNumToNum, selfProc)>>)
    /\ env = makeExtendTEnv(<<"x">>, <<TNum>>, makeEmptyTEnv)
    /\ result = makeFailure(msgVarDecl("unknown"))

====
